---------------------------- MODULE Spec2Model ----------------------------
(***************************************************************************)
(* Poker Night: the chip-distribution allocator                            *)
(* backend/scripts/chip_calculator.py, calculate_chip_distribution, the    *)
(* HTTP handlers that call it and the session and entry operations of      *)
(* backend/app/services/database_service.py.                               *)
(*                                                                         *)
(* Money held by the program as a float is held here as an integer number  *)
(* of thousandths of a dollar: 20.00 is 20000, 0.05 is 50, 0.005 is 5.     *)
(* Cents are plain integers, as in the code after line 37.                 *)
(***************************************************************************)
EXTENDS Integers, Sequences, FiniteSets, TLC

VARIABLES
    chip_definitions,       \* the table of line 24: <<[name, value, weight], ...>>
    total_buy_in,           \* the argument, in thousandths of a dollar
    pc,                     \* position in calculate_chip_distribution
    total_cents,            \* line 37
    value_of_weighted_set,  \* line 40
    num_sets,               \* line 47
    chip_distribution,      \* line 50, updated at line 61
    remaining_cents,        \* line 53, updated at line 62
    idx,                    \* position of the for loop of line 57 in the table
    ret,                    \* the value returned to the caller
    printed,                \* what the call wrote to standard output
    memo,                   \* amount -> what the first call with it returned
    api,                    \* the request to get_chip_distribution_api and its answer
    sessions,               \* the sessions table: <<row, ...>> in insertion order
    entries,                \* the entries table: <<row, ...>> in insertion order
    result,                 \* the last operation on the tables and what it returned
    players,                \* the players table: player_id -> row
    ending,                 \* the call of end_session under way
    admin_authenticated     \* caller -> the key of that name in the caller's session

chipvars == <<chip_definitions, total_buy_in, pc, total_cents, value_of_weighted_set,
              num_sets, chip_distribution, remaining_cents, idx, ret, printed>>

svcvars == <<players, ending, admin_authenticated>>

appvars == <<memo, api, sessions, entries, result, svcvars>>

vars == <<chipvars, appvars>>

-----------------------------------------------------------------------------
(* Bounds of the model *)

\* the largest number of full weighted sets an input amount holds
MaxSets == 3
\* amounts with a fraction of a cent are drawn up to this many thousandths; up
\* to 0.544 the double product total_buy_in * 100 of a three-decimal amount
\* rounds as the exact product does (0.545 * 100 is the first that does not)
SubCentMills == 400
\* the most negative input amount, in cents
MaxNegCents == 500

-----------------------------------------------------------------------------
(* The configuration, lines 24-32 *)

DefaultChipDefinitions ==
    << [name |-> "Black", value |-> 1000, weight |-> 10],
       [name |-> "Blue",  value |-> 500,  weight |-> 10],
       [name |-> "Green", value |-> 200,  weight |-> 13],
       [name |-> "Red",   value |-> 100,  weight |-> 14],
       [name |-> "White", value |-> 50,   weight |-> 20] >>

ChipNames(defs) == { defs[i].name : i \in 1..Len(defs) }

\* int(value * 100): the float product truncated to an integer
ChipValueCents(value) == (value * 100) \div 1000

-----------------------------------------------------------------------------
(* Return values and messages *)

None == [is_none |-> TRUE]
Dict(d) == [is_none |-> FALSE, dict |-> d]

InvalidAmountMessage == "Error: Total buy-in must be a positive number."
ZeroSetMessage == "Error: Chip values or weights cannot result in a zero-value set."
CalculatingMessage == "Calculating weighted chip distribution"
NothingPrinted == ""

\* line 21
InvalidAmountReturn == None
\* line 44
ZeroSetReturn == None

\* a local variable that has not been assigned yet
Unassigned == 0
NoDict == << >>

-----------------------------------------------------------------------------
(* The arithmetic of lines 19-62 *)

\* the guard written with < for <=
IsNegative(amount) == amount < 0

\* line 19: total_buy_in <= 0
IsNotPositive(amount) == amount <= 0

\* round(): to the nearest integer, a tie to the even one; n / d with n >= 0
RoundHalfEven(n, d) ==
    LET q == n \div d
        r == n % d
    IN  IF 2 * r < d THEN q
        ELSE IF 2 * r > d THEN q + 1
        ELSE IF q % 2 = 0 THEN q ELSE q + 1

\* line 37: int(round(total_buy_in * 100))
TotalCents(amount) == RoundHalfEven(amount * 100, 1000)

\* line 40: sum(int(value * 100) * weight for _, value, weight in chip_definitions)
RECURSIVE SumWeighted(_, _)
SumWeighted(defs, n) ==
    IF n = 0 THEN 0
    ELSE SumWeighted(defs, n - 1) + ChipValueCents(defs[n].value) * defs[n].weight

\* the weights left out of the sum
RECURSIVE SumValues(_, _)
SumValues(defs, n) ==
    IF n = 0 THEN 0
    ELSE SumValues(defs, n - 1) + ChipValueCents(defs[n].value)

ValueOfWeightedSetUnweighted(defs) == SumValues(defs, Len(defs))

ValueOfWeightedSet(defs) == SumWeighted(defs, Len(defs))

\* a set counted only once the amount exceeds its value
NumSetsStrict(cents, set_value) == (cents - 1) \div set_value

\* line 47
NumSets(cents, set_value) == cents \div set_value

\* the base stacks of one set whatever the number of sets
BaseDistributionOneSet(defs, sets) ==
    [ name \in ChipNames(defs) |->
        LET i == CHOOSE j \in 1..Len(defs) : defs[j].name = name
        IN  defs[i].weight ]

\* only the chips with a base stack get an entry
BaseDistributionSparse(defs, sets) ==
    [ name \in { defs[i].name : i \in { j \in 1..Len(defs) : sets * defs[j].weight > 0 } } |->
        LET i == CHOOSE j \in 1..Len(defs) : defs[j].name = name
        IN  sets * defs[i].weight ]

\* line 50
BaseDistribution(defs, sets) ==
    [ name \in ChipNames(defs) |->
        LET i == CHOOSE j \in 1..Len(defs) : defs[j].name = name
        IN  sets * defs[i].weight ]

\* the remainder taken from the whole amount
RemainingCentsWhole(cents, set_value) == cents

\* line 53
RemainingCents(cents, set_value) == cents % set_value

\* line 60
AdditionalChips(remaining, chip_value_cents) == remaining \div chip_value_cents

\* line 62 left out: the remainder is never reduced
GreedyStepNoSubtract(dist, remaining, def) ==
    LET chip_value_cents == ChipValueCents(def.value)
    IN  IF remaining >= chip_value_cents
        THEN LET additional_chips == AdditionalChips(remaining, chip_value_cents)
             IN  [dist |-> [dist EXCEPT ![def.name] = @ + additional_chips],
                  remaining |-> remaining]
        ELSE [dist |-> dist, remaining |-> remaining]

\* line 59 written with > for >=
GreedyStepStrict(dist, remaining, def) ==
    LET chip_value_cents == ChipValueCents(def.value)
    IN  IF remaining > chip_value_cents
        THEN LET additional_chips == AdditionalChips(remaining, chip_value_cents)
             IN  [dist |-> [dist EXCEPT ![def.name] = @ + additional_chips],
                  remaining |-> remaining - additional_chips * chip_value_cents]
        ELSE [dist |-> dist, remaining |-> remaining]

\* lines 58-62: one pass of the loop body for the chip def
GreedyStep(dist, remaining, def) ==
    LET chip_value_cents == ChipValueCents(def.value)
    IN  IF remaining >= chip_value_cents
        THEN LET additional_chips == AdditionalChips(remaining, chip_value_cents)
             IN  [dist |-> [dist EXCEPT ![def.name] = @ + additional_chips],
                  remaining |-> remaining - additional_chips * chip_value_cents]
        ELSE [dist |-> dist, remaining |-> remaining]

-----------------------------------------------------------------------------
(* Inputs *)

MaxCents == (MaxSets + 1) * ValueOfWeightedSet(DefaultChipDefinitions) - 1

\* the amounts a call is made with: every whole number of cents from -5.00 up,
\* and every amount with three decimals close to zero
Amounts ==
    { 10 * c : c \in (0 - MaxNegCents)..MaxCents }
        \cup ((0 - SubCentMills)..SubCentMills)

-----------------------------------------------------------------------------
(* The call, statement by statement *)

Entry(amount) ==
    /\ total_buy_in = amount
    /\ pc = "check_amount"
    /\ total_cents = Unassigned
    /\ value_of_weighted_set = Unassigned
    /\ num_sets = Unassigned
    /\ chip_distribution = NoDict
    /\ remaining_cents = Unassigned
    /\ idx = Unassigned
    /\ ret = None
    /\ printed = NothingPrinted

\* no call of end_session under way
NoEnding == [stage |-> "none"]

\* no player, no call of end_session, no caller of the administration
NoService ==
    /\ players = << >>
    /\ ending = NoEnding
    /\ admin_authenticated = << >>

\* nothing but the call itself: no request, empty tables
NoApp ==
    /\ memo = << >>
    /\ api = [stage |-> "none"]
    /\ sessions = << >>
    /\ entries = << >>
    /\ result = [op |-> "none"]
    /\ NoService

Init ==
    /\ chip_definitions = DefaultChipDefinitions
    /\ \E amount \in Amounts : Entry(amount)
    /\ NoApp

\* lines 19-21
CheckAmount ==
    /\ pc = "check_amount"
    /\ IF IsNotPositive(total_buy_in)
       THEN /\ printed' = InvalidAmountMessage
            /\ ret' = InvalidAmountReturn
            /\ pc' = "done"
       ELSE /\ pc' = "convert"
            /\ UNCHANGED <<printed, ret>>
    /\ UNCHANGED <<chip_definitions, total_buy_in, total_cents, value_of_weighted_set,
                   num_sets, chip_distribution, remaining_cents, idx>>

\* lines 37-40
Convert ==
    /\ pc = "convert"
    /\ total_cents' = TotalCents(total_buy_in)
    /\ value_of_weighted_set' = ValueOfWeightedSet(chip_definitions)
    /\ pc' = "check_set"
    /\ UNCHANGED <<chip_definitions, total_buy_in, num_sets, chip_distribution,
                   remaining_cents, idx, ret, printed>>

\* lines 42-44
CheckSet ==
    /\ pc = "check_set"
    /\ IF value_of_weighted_set = 0
       THEN /\ printed' = ZeroSetMessage
            /\ ret' = ZeroSetReturn
            /\ pc' = "done"
       ELSE /\ pc' = "base"
            /\ UNCHANGED <<printed, ret>>
    /\ UNCHANGED <<chip_definitions, total_buy_in, total_cents, value_of_weighted_set,
                   num_sets, chip_distribution, remaining_cents, idx>>

\* line 50 adding to a dictionary kept from the call before (a mutable default)
BaseReusingDict ==
    /\ pc = "base"
    /\ num_sets' = NumSets(total_cents, value_of_weighted_set)
    /\ chip_distribution' =
          LET fresh == BaseDistribution(chip_definitions, num_sets')
          IN  IF chip_distribution = NoDict THEN fresh
              ELSE [ name \in DOMAIN fresh |-> chip_distribution[name] + fresh[name] ]
    /\ remaining_cents' = RemainingCents(total_cents, value_of_weighted_set)
    /\ idx' = 1
    /\ pc' = "greedy"
    /\ UNCHANGED <<chip_definitions, total_buy_in, total_cents, value_of_weighted_set,
                   ret, printed>>

\* lines 47-53
Base ==
    /\ pc = "base"
    /\ num_sets' = NumSets(total_cents, value_of_weighted_set)
    /\ chip_distribution' = BaseDistribution(chip_definitions, num_sets')
    /\ remaining_cents' = RemainingCents(total_cents, value_of_weighted_set)
    /\ idx' = 1
    /\ pc' = "greedy"
    /\ UNCHANGED <<chip_definitions, total_buy_in, total_cents, value_of_weighted_set,
                   ret, printed>>

\* lines 57-62, one chip of chip_values_desc
Greedy ==
    /\ pc = "greedy"
    /\ idx <= Len(chip_definitions)
    /\ LET step == GreedyStep(chip_distribution, remaining_cents, chip_definitions[idx])
       IN  /\ chip_distribution' = step.dist
           /\ remaining_cents' = step.remaining
    /\ idx' = idx + 1
    /\ UNCHANGED <<chip_definitions, total_buy_in, pc, total_cents,
                   value_of_weighted_set, num_sets, ret, printed>>

\* lines 64-66
Return ==
    /\ pc = "greedy"
    /\ idx > Len(chip_definitions)
    /\ printed' = CalculatingMessage
    /\ ret' = Dict(chip_distribution)
    /\ pc' = "done"
    /\ UNCHANGED <<chip_definitions, total_buy_in, total_cents, value_of_weighted_set,
                   num_sets, chip_distribution, remaining_cents, idx>>

Next ==
    \/ CheckAmount /\ UNCHANGED appvars
    \/ Convert /\ UNCHANGED appvars
    \/ CheckSet /\ UNCHANGED appvars
    \/ Base /\ UNCHANGED appvars
    \/ Greedy /\ UNCHANGED appvars
    \/ Return /\ UNCHANGED appvars

Spec == Init /\ [][Next]_vars

-----------------------------------------------------------------------------
(* The same function with the table of line 24 edited: lines 42-44 can only  *)
(* run with a table other than the one the repository ships.                  *)

\* every weight set to 0
ZeroWeightDefinitions ==
    [ i \in 1..Len(DefaultChipDefinitions) |->
        [DefaultChipDefinitions[i] EXCEPT !.weight = 0] ]

\* every value below one cent: int(0.005 * 100) is 0
SubCentDefinitions ==
    [ i \in 1..Len(DefaultChipDefinitions) |->
        [DefaultChipDefinitions[i] EXCEPT !.value = 5] ]

ChipTables == { DefaultChipDefinitions, ZeroWeightDefinitions, SubCentDefinitions }

InitTables ==
    /\ chip_definitions \in ChipTables
    /\ \E amount \in Amounts : Entry(amount)
    /\ NoApp

SpecTables == InitTables /\ [][Next]_vars

-----------------------------------------------------------------------------
(* Several calls one after the other.  A finished call leaves its locals     *)
(* behind as they were: nothing clears them, the next call overwrites them.   *)

\* the amounts of the calls
CallAmounts == { 0 - 5000, 0, 10, 20000, 20370, 33970 }

NotCalled == [called |-> FALSE]
Called(value) == [called |-> TRUE, value |-> value]

\* the caller notes what the first call with each amount returned
Record ==
    memo' = IF pc' = "done" /\ ~memo[total_buy_in].called
            THEN [memo EXCEPT ![total_buy_in] = Called(ret')]
            ELSE memo

InitCalls ==
    /\ chip_definitions = DefaultChipDefinitions
    /\ \E amount \in CallAmounts : Entry(amount)
    /\ memo = [ amount \in CallAmounts |-> NotCalled ]
    /\ api = [stage |-> "none"]
    /\ sessions = << >>
    /\ entries = << >>
    /\ result = [op |-> "none"]
    /\ NoService

\* line 3: the next call
Call ==
    /\ pc = "done"
    /\ \E amount \in CallAmounts : total_buy_in' = amount
    /\ pc' = "check_amount"
    /\ UNCHANGED <<chip_definitions, total_cents, value_of_weighted_set, num_sets,
                   chip_distribution, remaining_cents, idx, ret, printed>>

NextCalls ==
    \/ CheckAmount /\ Record /\ UNCHANGED <<api, sessions, entries, result, svcvars>>
    \/ Convert /\ Record /\ UNCHANGED <<api, sessions, entries, result, svcvars>>
    \/ CheckSet /\ Record /\ UNCHANGED <<api, sessions, entries, result, svcvars>>
    \/ Base /\ Record /\ UNCHANGED <<api, sessions, entries, result, svcvars>>
    \/ Greedy /\ Record /\ UNCHANGED <<api, sessions, entries, result, svcvars>>
    \/ Return /\ Record /\ UNCHANGED <<api, sessions, entries, result, svcvars>>
    \/ Call /\ UNCHANGED appvars

SpecCalls == InitCalls /\ [][NextCalls]_vars


-----------------------------------------------------------------------------
(* What the caller and the display routine compute from a distribution *)

\* line 49 of routes/chip_calculator.py: sum(chip_distribution.values())
RECURSIVE SumOver(_, _)
SumOver(f, keys) ==
    IF keys = {} THEN 0
    ELSE LET k == CHOOSE x \in keys : TRUE
         IN  f[k] + SumOver(f, keys \ {k})

TotalChips(dist) == SumOver(dist, DOMAIN dist)

\* the value in cents of the chips of a distribution
RECURSIVE SumChipValue(_, _, _)
SumChipValue(dist, defs, n) ==
    IF n = 0 THEN 0
    ELSE SumChipValue(dist, defs, n - 1)
            + dist[defs[n].name] * ChipValueCents(defs[n].value)

DistributionValue(dist, defs) == SumChipValue(dist, defs, Len(defs))

\* the call has returned a distribution
ReturnedDict == pc = "done" /\ ~ret.is_none

\* the call has run the remainder pass to its end
GreedyPassEnded == pc = "done" /\ idx > Len(chip_definitions)

Counts(black, blue, green, red, white) ==
    [ name \in {"Black", "Blue", "Green", "Red", "White"} |->
        CASE name = "Black" -> black
          [] name = "Blue"  -> blue
          [] name = "Green" -> green
          [] name = "Red"   -> red
          [] name = "White" -> white ]

-----------------------------------------------------------------------------
(* backend/app/routes/chip_calculator.py: GET /chip-calculator/<float:buy_in> *)
(* (the same handler stands in backend/app.py, lines 447-472).               *)

\* <float:buy_in>: the converter matches unsigned numbers only
ApiAmounts == { amount \in Amounts : amount >= 0 }

\* lines 18-20: without the scripts directory the route keeps a calculator
\* of its own that returns an empty dictionary
EmptyDict == << >>

BuyInNegative(buy_in) == buy_in < 0

\* line 39
BuyInNotPositive(buy_in) == buy_in <= 0

\* line 45: not chip_distribution
IsFalsy(value) == value.is_none \/ value.dict = EmptyDict

PositiveMessage == "Buy-in amount must be positive"
FailedMessage == "Failed to calculate chip distribution"

ErrorResponse(status, message) == [status |-> status, error |-> message]

\* lines 49-56
OkResponse(buy_in, dist) ==
    [status |-> 200, buy_in |-> buy_in, chip_distribution |-> dist,
     total_chips |-> TotalChips(dist)]

\* the request has arrived, no call of the calculator has begun
Idle ==
    /\ total_buy_in = Unassigned
    /\ pc = "idle"
    /\ total_cents = Unassigned
    /\ value_of_weighted_set = Unassigned
    /\ num_sets = Unassigned
    /\ chip_distribution = NoDict
    /\ remaining_cents = Unassigned
    /\ idx = Unassigned
    /\ ret = None
    /\ printed = NothingPrinted

InitApi ==
    /\ chip_definitions = DefaultChipDefinitions
    /\ Idle
    /\ memo = << >>
    /\ \E buy_in \in ApiAmounts, imported \in BOOLEAN :
          api = [stage |-> "received", buy_in |-> buy_in, imported |-> imported,
                 called |-> FALSE, response |-> << >>]
    /\ sessions = << >>
    /\ entries = << >>
    /\ result = [op |-> "none"]
    /\ NoService

\* lines 39-40: the amount is refused
ApiReject ==
    /\ api.stage = "received"
    /\ BuyInNotPositive(api.buy_in)
    /\ api' = [api EXCEPT !.stage = "answered",
                          !.response = ErrorResponse(400, PositiveMessage)]
    /\ UNCHANGED <<chipvars, svcvars, memo, sessions, entries, result>>

\* line 43: the calculator of scripts/chip_calculator.py is entered
ApiCall ==
    /\ api.stage = "received"
    /\ ~BuyInNotPositive(api.buy_in)
    /\ api.imported
    /\ api' = [api EXCEPT !.stage = "calculating", !.called = TRUE]
    /\ total_buy_in' = api.buy_in
    /\ pc' = "check_amount"
    /\ UNCHANGED <<chip_definitions, total_cents, value_of_weighted_set, num_sets,
                   chip_distribution, remaining_cents, idx, ret, printed,
                   memo, sessions, entries, result, svcvars>>

\* line 43 with the calculator of lines 18-20
ApiCallFallback ==
    /\ api.stage = "received"
    /\ ~BuyInNotPositive(api.buy_in)
    /\ ~api.imported
    /\ api' = [api EXCEPT !.stage = "calculating", !.called = TRUE]
    /\ total_buy_in' = api.buy_in
    /\ ret' = Dict(EmptyDict)
    /\ pc' = "done"
    /\ UNCHANGED <<chip_definitions, total_cents, value_of_weighted_set, num_sets,
                   chip_distribution, remaining_cents, idx, printed,
                   memo, sessions, entries, result, svcvars>>

\* lines 45-56
ApiRespond ==
    /\ api.stage = "calculating"
    /\ pc = "done"
    /\ api' = [api EXCEPT !.stage = "answered",
                          !.response = IF IsFalsy(ret)
                                       THEN ErrorResponse(500, FailedMessage)
                                       ELSE OkResponse(api.buy_in, ret.dict)]
    /\ UNCHANGED <<chipvars, svcvars, memo, sessions, entries, result>>

NextApi ==
    \/ ApiReject
    \/ ApiCall
    \/ ApiCallFallback
    \/ CheckAmount /\ UNCHANGED appvars
    \/ Convert /\ UNCHANGED appvars
    \/ CheckSet /\ UNCHANGED appvars
    \/ Base /\ UNCHANGED appvars
    \/ Greedy /\ UNCHANGED appvars
    \/ Return /\ UNCHANGED appvars
    \/ ApiRespond

SpecApi == InitApi /\ [][NextApi]_vars

-----------------------------------------------------------------------------
(* The sessions table: backend/app/database/models.py, Session, and the     *)
(* handlers of backend/app/routes/sessions.py that store a distribution.    *)
(* Money is in thousandths of a dollar, as in the calculator above.         *)

\* the whole distribution for an amount: lines 57-62 run over the table
RECURSIVE GreedyPass(_, _, _, _)
GreedyPass(dist, remaining, defs, i) ==
    IF i > Len(defs) THEN dist
    ELSE LET step == GreedyStep(dist, remaining, defs[i])
         IN  GreedyPass(step.dist, step.remaining, defs, i + 1)

\* scripts/chip_calculator.py, lines 3-66, as the handlers call it
CalculateChipDistribution(amount) ==
    LET defs == DefaultChipDefinitions
        set_value == ValueOfWeightedSet(defs)
        cents == TotalCents(amount)
    IN  IF IsNotPositive(amount) THEN None
        ELSE IF set_value = 0 THEN None
        ELSE Dict(GreedyPass(BaseDistribution(defs, NumSets(cents, set_value)),
                             RemainingCents(cents, set_value), defs, 1))

\* models.py, lines 17-35: Decimal(str(value)).quantize(0.01, ROUND_HALF_UP),
\* a tie going away from zero
RoundToCents(value) ==
    IF value >= 0 THEN ((value + 5) \div 10) * 10
    ELSE 0 - ((((0 - value) + 5) \div 10) * 10)

\* an integer column that may be NULL
Some(value) == [is_none |-> FALSE, value |-> value]

\* json.dumps(chip_dist): the distribution as a string
JsonDumps(dist) == [is_none |-> FALSE, text |-> dist]

\* json.loads(self.chip_distribution)
JsonLoads(string) == string.text

\* models.py, line 124: chip_distribution = Column(Text).  The sqlite3 driver
\* binds None and str to a TEXT parameter and raises on a dict
SqliteBinds(value) == value.is_none \/ "text" \in DOMAIN value

\* the dates of a request body: one that strptime accepts, one it does not
Dates == { "2024-01-05", "05/01/2024" }
ValidDate(date) == date = "2024-01-05"

\* the buy-in values of a request body: 0 and 10000.01 are refused, 0.045
\* is stored as 0.05
SessionBuyIns == { 0, 45, 20000, 20370, 10000010 }

\* sessions.py, line 83
BuyInOutOfRange(buy_in) == buy_in <= 0 \/ buy_in > 10000000

\* the number of rows of the sessions table
MaxSessions == 2

\* database_service.py, lines 200-209: the row create_session inserts; with
\* one date the count of line 200 is the number of rows
NewSession(rows, buy_in) ==
    [session_id |-> Len(rows) + 1,
     default_buy_in_value |-> RoundToCents(buy_in),
     is_active |-> TRUE,
     status |-> "ACTIVE",
     chip_distribution |-> None,
     total_chips |-> None]

\* database_service.py, line 235: get_session_by_id
HasSession(rows, session_id) == session_id \in 1..Len(rows)

\* database_service.py, lines 324-356: update_session with the object the
\* handler changed.  The object is the row itself, so the commit of line 348
\* writes the handler's assignments; a value the driver cannot bind fails the
\* commit and line 354 rolls everything back
UpdateSession(rows, session_id, updated_session) ==
    IF ~HasSession(rows, session_id) THEN [ok |-> FALSE, rows |-> rows]
    ELSE IF ~SqliteBinds(updated_session.chip_distribution)
         THEN [ok |-> FALSE, rows |-> rows]
         ELSE [ok |-> TRUE, rows |-> [rows EXCEPT ![session_id] = updated_session]]

\* sessions.py, lines 97-103 and 133-138: the distribution is put on the
\* session object and update_session is asked to store it
StoreDistribution(rows, session_id, value) ==
    LET calculated == CalculateChipDistribution(value)
    IN  IF IsFalsy(calculated) THEN rows
        ELSE UpdateSession(rows, session_id,
                 [rows[session_id] EXCEPT
                     !.chip_distribution = calculated,
                     !.total_chips = Some(TotalChips(calculated.dict))]).rows

\* models.py, lines 137-174: to_dict of the row as it is stored
ToDict(row) ==
    [session_id |-> row.session_id,
     default_buy_in_value |-> RoundToCents(row.default_buy_in_value),
     is_active |-> row.is_active,
     status |-> row.status,
     chip_distribution |-> IF row.chip_distribution.is_none THEN None
                           ELSE Dict(JsonLoads(row.chip_distribution)),
     total_chips |-> row.total_chips]

NoRequest == [stage |-> "none"]

InitSessions ==
    /\ chip_definitions = DefaultChipDefinitions
    /\ Idle
    /\ memo = << >>
    /\ api = NoRequest
    /\ sessions = << >>
    /\ entries = << >>
    /\ result = [op |-> "none"]
    /\ NoService

\* sessions.py, lines 65-86: the request is refused
CreateSessionApiRefused ==
    /\ \E date \in Dates, buy_in \in SessionBuyIns :
          /\ ~ValidDate(date) \/ BuyInOutOfRange(buy_in)
          /\ result' = [op |-> "create_session_api", status |-> 400,
                        date |-> date, buy_in |-> buy_in]
    /\ UNCHANGED <<chipvars, svcvars, memo, api, sessions, entries>>

\* sessions.py, lines 58-108
CreateSessionApi ==
    /\ Len(sessions) < MaxSessions
    /\ \E date \in Dates, buy_in \in SessionBuyIns :
          /\ ValidDate(date)
          /\ ~BuyInOutOfRange(buy_in)
          /\ LET created == Append(sessions, NewSession(sessions, buy_in))
                 session_id == Len(created)
             IN  /\ sessions' = StoreDistribution(created, session_id, buy_in)
                 /\ result' = [op |-> "create_session_api", status |-> 201,
                               buy_in |-> buy_in, session_id |-> session_id,
                               body |-> ToDict(sessions'[session_id])]
    /\ UNCHANGED <<chipvars, svcvars, memo, api, entries>>

\* migration.py, line 336, and models.py, lines 176-208: a session of the
\* JSON files is inserted, its distribution as json.dumps wrote it; the files
\* hold the distribution app.py computed from the buy-in value, or none
MigrateSession ==
    /\ Len(sessions) < MaxSessions
    /\ \E buy_in \in SessionBuyIns, with_distribution \in BOOLEAN :
          /\ ~BuyInOutOfRange(buy_in)
          /\ LET calculated == CalculateChipDistribution(buy_in)
                 row == NewSession(sessions, buy_in)
             IN  sessions' = Append(sessions,
                    IF with_distribution /\ ~IsFalsy(calculated)
                    THEN [row EXCEPT
                            !.chip_distribution = JsonDumps(calculated.dict),
                            !.total_chips = Some(TotalChips(calculated.dict))]
                    ELSE row)
          /\ result' = [op |-> "migrate", buy_in |-> buy_in]
    /\ UNCHANGED <<chipvars, svcvars, memo, api, entries>>

\* sessions.py, lines 121-124
GetSessionDetailsApiNotFound ==
    /\ \E session_id \in 1..MaxSessions :
          /\ ~HasSession(sessions, session_id)
          /\ result' = [op |-> "get_session_details_api", status |-> 404,
                        session_id |-> session_id]
    /\ UNCHANGED <<chipvars, svcvars, memo, api, sessions, entries>>

\* sessions.py, lines 111-146
GetSessionDetailsApi ==
    /\ \E session_id \in 1..MaxSessions :
          /\ HasSession(sessions, session_id)
          /\ sessions' =
                IF sessions[session_id].chip_distribution.is_none
                THEN StoreDistribution(sessions, session_id,
                                       sessions[session_id].default_buy_in_value)
                ELSE sessions
          /\ result' = [op |-> "get_session_details_api", status |-> 200,
                        session_id |-> session_id,
                        before |-> sessions[session_id],
                        body |-> ToDict(sessions'[session_id])]
    /\ UNCHANGED <<chipvars, svcvars, memo, api, entries>>

NextSessions ==
    \/ CreateSessionApiRefused
    \/ CreateSessionApi
    \/ MigrateSession
    \/ GetSessionDetailsApiNotFound
    \/ GetSessionDetailsApi

SpecSessions == InitSessions /\ [][NextSessions]_vars

-----------------------------------------------------------------------------
(* The entries table: backend/app/database/models.py, Entry, and the        *)
(* operations of backend/app/services/database_service.py on it.  A row     *)
(* holds the columns these operations compute: session_id, player_id,       *)
(* buy_in_count, total_buy_in_amount, payout, profit and the two counters   *)
(* session_seven_two_wins and session_strikes.  Its entry_id,               *)
(* eid_ and one more than the largest number in use, is its name only: the  *)
(* model names a row by its place in the table.                             *)

\* the players table holds the players 1 and 2; 0 is nobody's id
Players == { 1, 2 }
PlayerIds == { 0 } \cup Players

\* the sessions of the requests, the places of the entries table
SessionIds == { 1, 2 }
Places == { 1, 2 }

\* database_service.py, line 100: get_player_by_id
HasPlayer(player_id) == player_id \in Players

\* models.py, line 56: the counter of a player who was just added
NewPlayer == [seven_two_wins |-> 0]

\* num_buy_ins of a request: sessions.py, lines 232-236, lets 1..100 through
NumBuyIns == { 1, 2 }

\* the model stops buying in at this count
MaxBuyInCount == 2

\* the buy-in value of the sessions created here, the payout of a request
\* (12.345 is stored as 12.35)
EntryBuyIns == { 20000 }
PayoutAmounts == { 12345 }

Returned(row) == [is_none |-> FALSE, entry |-> row]

\* the entry is never found
FirstEntryNever(rows, session_id, player_id) == 0

\* Entry.query.filter_by(session_id=..., player_id=...).first(): the place of
\* the first matching row, 0 for None
FirstEntry(rows, session_id, player_id) ==
    LET matches == { i \in 1..Len(rows) :
                        rows[i].session_id = session_id /\ rows[i].player_id = player_id }
    IN  IF matches = {} THEN 0
        ELSE CHOOSE i \in matches : \A j \in matches : i <= j

\* the profit is left as it was
CalculateProfitStale(row) == row

\* models.py, lines 300-309: Entry.calculate_profit
CalculateProfit(row) ==
    [row EXCEPT !.profit = RoundToCents(row.payout - row.total_buy_in_amount)]

\* the session is taken for active
SessionEndedNever(rows, session_id) == FALSE

\* database_service.py, lines 383 and 470: not session.is_active
SessionEnded(rows, session_id) == ~rows[session_id].is_active

\* one buy-in is charged whatever the count
TotalBuyInAmountOne(buy_in_count, cost_per_buy_in) == RoundToCents(cost_per_buy_in)

\* database_service.py, lines 398 and 492
TotalBuyInAmount(buy_in_count, cost_per_buy_in) ==
    RoundToCents(buy_in_count * cost_per_buy_in)

NothingDone(rows) == [returned |-> None, entries |-> rows]

\* database_service.py, lines 359-445
RecordPlayerEntryOp(session_rows, rows, session_id, player_id, num_buy_ins) ==
    IF ~HasSession(session_rows, session_id) THEN NothingDone(rows)
    ELSE IF ~HasPlayer(player_id) THEN NothingDone(rows)
    ELSE IF SessionEnded(session_rows, session_id) THEN NothingDone(rows)
    ELSE LET existing == FirstEntry(rows, session_id, player_id)
             cost_per_buy_in == session_rows[session_id].default_buy_in_value
             total_buy_in_for_this_action == RoundToCents(num_buy_ins * cost_per_buy_in)
         IN  IF existing # 0
             THEN LET count == rows[existing].buy_in_count + num_buy_ins
                      entry == CalculateProfit(
                                  [rows[existing] EXCEPT
                                      !.buy_in_count = count,
                                      !.total_buy_in_amount =
                                          TotalBuyInAmount(count, cost_per_buy_in)])
                  IN  [returned |-> Returned(entry),
                       entries |-> [rows EXCEPT ![existing] = entry]]
             ELSE LET entry == [session_id |-> session_id,
                                player_id |-> player_id,
                                buy_in_count |-> num_buy_ins,
                                total_buy_in_amount |-> total_buy_in_for_this_action,
                                payout |-> RoundToCents(0),
                                profit |-> RoundToCents(0 - total_buy_in_for_this_action),
                                session_seven_two_wins |-> 0,
                                session_strikes |-> 0]
                  IN  [returned |-> Returned(entry), entries |-> Append(rows, entry)]

\* the rows without the row at place i
Without(rows, i) ==
    [ j \in 1..(Len(rows) - 1) |-> IF j < i THEN rows[j] ELSE rows[j + 1] ]

\* database_service.py, lines 447-514
RemoveBuyInOp(session_rows, rows, session_id, player_id) ==
    IF ~HasSession(session_rows, session_id) THEN NothingDone(rows)
    ELSE IF ~HasPlayer(player_id) THEN NothingDone(rows)
    ELSE IF SessionEnded(session_rows, session_id) THEN NothingDone(rows)
    ELSE LET found == FirstEntry(rows, session_id, player_id)
             cost_per_buy_in == session_rows[session_id].default_buy_in_value
         IN  IF found = 0 THEN NothingDone(rows)
             ELSE IF rows[found].buy_in_count > 1
             THEN LET count == rows[found].buy_in_count - 1
                      entry == CalculateProfit(
                                  [rows[found] EXCEPT
                                      !.buy_in_count = count,
                                      !.total_buy_in_amount =
                                          TotalBuyInAmount(count, cost_per_buy_in)])
                  IN  [returned |-> Returned(entry),
                       entries |-> [rows EXCEPT ![found] = entry]]
             ELSE [returned |-> None, entries |-> Without(rows, found)]

\* database_service.py, lines 516-555
RecordPayoutOp(rows, session_id, player_id, payout_amount) ==
    LET found == FirstEntry(rows, session_id, player_id)
    IN  IF found = 0 THEN [returned |-> FALSE, entries |-> rows]
        ELSE [returned |-> TRUE,
              entries |-> [rows EXCEPT ![found] =
                              CalculateProfit([@ EXCEPT
                                  !.payout = RoundToCents(payout_amount)])]]

\* database_service.py, lines 1055-1096
AddPlayerToSessionOp(rows, session_id, player_id) ==
    LET existing == FirstEntry(rows, session_id, player_id)
    IN  IF existing # 0
        THEN [returned |-> Returned(rows[existing]), entries |-> rows]
        ELSE LET entry == [session_id |-> session_id,
                           player_id |-> player_id,
                           buy_in_count |-> 0,
                           total_buy_in_amount |-> 0,
                           payout |-> 0,
                           profit |-> 0,
                           session_seven_two_wins |-> 0,
                           session_strikes |-> 0]
             IN  [returned |-> Returned(entry), entries |-> Append(rows, entry)]

\* the rows stay within the counts the model follows
WithinBounds(rows) ==
    /\ DOMAIN rows \subseteq Places
    /\ \A i \in 1..Len(rows) : rows[i].buy_in_count <= MaxBuyInCount

InitEntries ==
    /\ chip_definitions = DefaultChipDefinitions
    /\ Idle
    /\ memo = << >>
    /\ api = NoRequest
    /\ sessions = << >>
    /\ entries = << >>
    /\ result = [op |-> "none"]
    /\ players = [ player_id \in Players |-> NewPlayer ]
    /\ ending = NoEnding
    /\ admin_authenticated = << >>

\* database_service.py, lines 183-223
CreateSession ==
    /\ Len(sessions) + 1 \in SessionIds
    /\ \E buy_in \in EntryBuyIns :
          /\ sessions' = Append(sessions, NewSession(sessions, buy_in))
          /\ result' = [op |-> "create_session", returned |-> Len(sessions')]
    /\ UNCHANGED <<chipvars, svcvars, memo, api, entries>>

\* database_service.py, lines 255-294; the notifications of lines 277-287
\* write nothing to the two tables
EndSession ==
    /\ \E session_id \in SessionIds :
          IF HasSession(sessions, session_id)
          THEN /\ sessions' = [sessions EXCEPT ![session_id].is_active = FALSE,
                                               ![session_id].status = "ENDED"]
               /\ result' = [op |-> "end_session", returned |-> TRUE]
          ELSE /\ sessions' = sessions
               /\ result' = [op |-> "end_session", returned |-> FALSE]
    /\ UNCHANGED <<chipvars, svcvars, memo, api, entries>>

\* database_service.py, lines 296-322
ReactivateSession ==
    /\ \E session_id \in SessionIds :
          IF HasSession(sessions, session_id)
          THEN /\ sessions' = [sessions EXCEPT ![session_id].is_active = TRUE,
                                               ![session_id].status = "ACTIVE"]
               /\ result' = [op |-> "reactivate_session", returned |-> TRUE]
          ELSE /\ sessions' = sessions
               /\ result' = [op |-> "reactivate_session", returned |-> FALSE]
    /\ UNCHANGED <<chipvars, svcvars, memo, api, entries>>

\* one call of record_player_entry
RecordPlayerEntryCall(session_id, player_id, num_buy_ins) ==
    LET done == RecordPlayerEntryOp(sessions, entries, session_id, player_id,
                                    num_buy_ins)
    IN  /\ WithinBounds(done.entries)
        /\ entries' = done.entries
        /\ result' = [op |-> "record_player_entry", returned |-> done.returned]
        /\ UNCHANGED <<chipvars, svcvars, memo, api, sessions>>

\* database_service.py, lines 359-445
RecordPlayerEntry ==
    \E session_id \in SessionIds, player_id \in PlayerIds, num_buy_ins \in NumBuyIns :
        RecordPlayerEntryCall(session_id, player_id, num_buy_ins)

\* one call of remove_buy_in
RemoveBuyInCall(session_id, player_id) ==
    LET done == RemoveBuyInOp(sessions, entries, session_id, player_id)
    IN  /\ entries' = done.entries
        /\ result' = [op |-> "remove_buy_in", returned |-> done.returned]
        /\ UNCHANGED <<chipvars, svcvars, memo, api, sessions>>

\* database_service.py, lines 447-514
RemoveBuyIn ==
    \E session_id \in SessionIds, player_id \in PlayerIds :
        RemoveBuyInCall(session_id, player_id)

\* database_service.py, lines 516-555
RecordPayout ==
    /\ \E session_id \in SessionIds, player_id \in PlayerIds,
          payout_amount \in PayoutAmounts :
          LET done == RecordPayoutOp(entries, session_id, player_id, payout_amount)
          IN  /\ entries' = done.entries
              /\ result' = [op |-> "record_payout", returned |-> done.returned]
    /\ UNCHANGED <<chipvars, svcvars, memo, api, sessions>>

\* database_service.py, lines 1055-1096, called by calendar.py, line 189, for
\* a session that exists and the players who answered the invitation
AddPlayerToSession ==
    /\ \E session_id \in SessionIds, player_id \in Players :
          /\ HasSession(sessions, session_id)
          /\ LET done == AddPlayerToSessionOp(entries, session_id, player_id)
             IN  /\ WithinBounds(done.entries)
                 /\ entries' = done.entries
                 /\ result' = [op |-> "add_player_to_session",
                               returned |-> done.returned]
    /\ UNCHANGED <<chipvars, svcvars, memo, api, sessions>>

NextEntries ==
    \/ CreateSession
    \/ EndSession
    \/ ReactivateSession
    \/ RecordPlayerEntry
    \/ RemoveBuyIn
    \/ RecordPayout
    \/ AddPlayerToSession

SpecEntries == InitEntries /\ [][NextEntries]_vars

-----------------------------------------------------------------------------
(* backend/app/routes/admin.py: the two PUT handlers that write the tables, *)
(* for a caller who is logged in as the administrator.                      *)

\* the request bodies: None for a key that is absent
AdminEntryData ==
    { [buy_in_count |-> Some(2), total_buy_in_amount |-> None, payout |-> None],
      [buy_in_count |-> None, total_buy_in_amount |-> Some(19995), payout |-> None],
      [buy_in_count |-> None, total_buy_in_amount |-> None, payout |-> Some(12345)],
      [buy_in_count |-> Some(2), total_buy_in_amount |-> Some(19995),
       payout |-> Some(12345)] }

\* the JSON values a request body holds under a key
JsonBool(value) == [type |-> "bool", bool |-> value]
JsonNumber(value) == [type |-> "number", number |-> value]
JsonString(value) == [type |-> "string", string |-> value]
JsonNull == [type |-> "null"]

\* admin.py, line 385: bool() of a JSON value
Bool(json) ==
    CASE json.type = "bool" -> json.bool
      [] json.type = "number" -> json.number # 0
      [] json.type = "string" -> json.string # ""
      [] json.type = "null" -> FALSE

\* every session is given the status of an active one
StatusForActive(is_active) == "ACTIVE"

\* admin.py, line 386
StatusFor(is_active) == IF is_active THEN "ACTIVE" ELSE "ENDED"

\* the buy-in value is lowered to 9.995, stored as 10.00
AdminSessionData ==
    { [default_buy_in_value |-> Some(9995), is_active |-> None],
      [default_buy_in_value |-> Some(9995), is_active |-> Some(JsonBool(TRUE))] }

\* bodies that hold is_active only
AdminStatusData ==
    { [default_buy_in_value |-> None, is_active |-> Some(json)] :
        json \in { JsonBool(TRUE), JsonBool(FALSE), JsonNumber(0), JsonNumber(1),
                   JsonString("false"), JsonString(""), JsonNull } }

\* admin.py, lines 486-507
AdminUpdateEntryOp(session_rows, row, data) ==
    LET counted ==
            IF data.buy_in_count.is_none THEN row
            ELSE [row EXCEPT
                    !.buy_in_count = data.buy_in_count.value,
                    !.total_buy_in_amount =
                        IF data.total_buy_in_amount.is_none
                           /\ HasSession(session_rows, row.session_id)
                        THEN data.buy_in_count.value
                                * session_rows[row.session_id].default_buy_in_value
                        ELSE @]
        totalled ==
            IF data.total_buy_in_amount.is_none THEN counted
            ELSE [counted EXCEPT
                    !.total_buy_in_amount = RoundToCents(data.total_buy_in_amount.value)]
        paid ==
            IF data.payout.is_none THEN totalled
            ELSE [totalled EXCEPT !.payout = RoundToCents(data.payout.value)]
    IN  CalculateProfit(paid)

\* admin.py, lines 464-517
AdminUpdateEntry ==
    /\ \E place \in Places, data \in AdminEntryData :
          IF place \in DOMAIN entries
          THEN /\ entries' = [entries EXCEPT
                                ![place] = AdminUpdateEntryOp(sessions, @, data)]
               /\ result' = [op |-> "admin_update_entry", returned |-> 200]
          ELSE /\ entries' = entries
               /\ result' = [op |-> "admin_update_entry", returned |-> 404]
    /\ UNCHANGED <<chipvars, svcvars, memo, api, sessions>>

\* admin.py, lines 353-398, for a body of the given ones; the date of the
\* session is not in the model
AdminUpdateSessionWith(bodies) ==
    /\ \E session_id \in SessionIds, data \in bodies :
          IF HasSession(sessions, session_id)
          THEN /\ sessions' =
                    [sessions EXCEPT
                        ![session_id].default_buy_in_value =
                            IF data.default_buy_in_value.is_none THEN @
                            ELSE RoundToCents(data.default_buy_in_value.value),
                        ![session_id].is_active =
                            IF data.is_active.is_none THEN @
                            ELSE Bool(data.is_active.value),
                        ![session_id].status =
                            IF data.is_active.is_none THEN @
                            ELSE StatusFor(Bool(data.is_active.value))]
               /\ result' = [op |-> "admin_update_session", returned |-> 200]
          ELSE /\ sessions' = sessions
               /\ result' = [op |-> "admin_update_session", returned |-> 404]
    /\ UNCHANGED <<chipvars, svcvars, memo, api, entries>>

\* the handler with a body that changes the buy-in value
AdminUpdateSession == AdminUpdateSessionWith(AdminSessionData)

\* the handler with a body that changes is_active
AdminUpdateSessionStatus == AdminUpdateSessionWith(AdminStatusData)

\* the entry operations and the two handlers; the sessions stay active
NextAdmin ==
    \/ CreateSession
    \/ RecordPlayerEntry
    \/ RemoveBuyIn
    \/ RecordPayout
    \/ AddPlayerToSession
    \/ AdminUpdateEntry
    \/ AdminUpdateSession

SpecAdmin == InitEntries /\ [][NextAdmin]_vars

\* the operations that write is_active and status of a session, and the two
\* handlers that call update_session
NextStatus ==
    \/ CreateSession
    \/ EndSession
    \/ ReactivateSession
    \/ CreateSessionApi
    \/ GetSessionDetailsApi
    \/ AdminUpdateSessionStatus

SpecStatus == InitEntries /\ [][NextStatus]_vars

-----------------------------------------------------------------------------
(* backend/app/services/database_service.py, end_session, step by step: the *)
(* commit, then the notifications, then the return.  The calls of the       *)
(* service are made one at a time.                                          *)

\* what became of the notifications of one call
Outcomes == { "succeeded", "failed", "raised" }

\* the call ends when the sending raised
EndSessionReturnsUnlessRaised(outcome) == outcome # "raised"

\* database_service.py, lines 283-290: 'except Exception' keeps what the
\* sending raised, and line 290 returns True
EndSessionReturns(outcome) == TRUE

\* database_service.py, lines 17-21: the import of NotificationService
\* succeeded or left None
InitEnding ==
    /\ chip_definitions = DefaultChipDefinitions
    /\ Idle
    /\ memo = << >>
    /\ api = NoRequest
    /\ sessions = << >>
    /\ entries = << >>
    /\ result = [op |-> "none"]
    /\ players = [ player_id \in Players |-> NewPlayer ]
    /\ \E imported \in BOOLEAN :
          ending = [stage |-> "idle", NotificationService |-> imported]
    /\ admin_authenticated = << >>

\* database_service.py, lines 266-269
EndSessionMissing ==
    /\ ending.stage = "idle"
    /\ \E session_id \in SessionIds :
          /\ ~HasSession(sessions, session_id)
          /\ result' = [op |-> "end_session", session_id |-> session_id,
                        outcome |-> "missing", before |-> sessions,
                        returned |-> FALSE]
    /\ UNCHANGED <<chipvars, svcvars, memo, api, sessions, entries>>

\* database_service.py, lines 266-275
EndSessionCommit ==
    /\ ending.stage = "idle"
    /\ \E session_id \in SessionIds :
          /\ HasSession(sessions, session_id)
          /\ sessions' = [sessions EXCEPT ![session_id].is_active = FALSE,
                                          ![session_id].status = "ENDED"]
          /\ ending' = [stage |-> "committed",
                        NotificationService |-> ending.NotificationService,
                        session_id |-> session_id, before |-> sessions]
    /\ UNCHANGED <<chipvars, memo, api, entries, result, players,
                   admin_authenticated>>

\* database_service.py, lines 278-285, and notification_service.py, lines
\* 22-39 and 273-342: the constructor raises without the VAPID keys, the
\* sending answers success False or True; nothing of it writes a session
EndSessionNotify ==
    /\ ending.stage = "committed"
    /\ ending.NotificationService
    /\ \E outcome \in Outcomes :
          ending' = [stage |-> "notified",
                     NotificationService |-> ending.NotificationService,
                     session_id |-> ending.session_id, before |-> ending.before,
                     outcome |-> outcome]
    /\ UNCHANGED <<chipvars, memo, api, sessions, entries, result, players,
                   admin_authenticated>>

\* database_service.py, lines 277 and 286-288
EndSessionSkipNotify ==
    /\ ending.stage = "committed"
    /\ ~ending.NotificationService
    /\ ending' = [stage |-> "notified",
                  NotificationService |-> ending.NotificationService,
                  session_id |-> ending.session_id, before |-> ending.before,
                  outcome |-> "unavailable"]
    /\ UNCHANGED <<chipvars, memo, api, sessions, entries, result, players,
                   admin_authenticated>>

\* database_service.py, line 290
EndSessionReturn ==
    /\ ending.stage = "notified"
    /\ result' = [op |-> "end_session", session_id |-> ending.session_id,
                  outcome |-> ending.outcome, before |-> ending.before,
                  returned |-> EndSessionReturns(ending.outcome)]
    /\ ending' = [stage |-> "idle",
                  NotificationService |-> ending.NotificationService]
    /\ UNCHANGED <<chipvars, memo, api, sessions, entries, players,
                   admin_authenticated>>

\* the sessions are created, ended and reactivated, one call at a time
NextEnding ==
    \/ ending.stage = "idle" /\ CreateSession
    \/ ending.stage = "idle" /\ ReactivateSession
    \/ EndSessionMissing
    \/ EndSessionCommit
    \/ EndSessionNotify
    \/ EndSessionSkipNotify
    \/ EndSessionReturn

SpecEnding == InitEnding /\ [][NextEnding]_vars

-----------------------------------------------------------------------------
(* backend/app/services/database_service.py: the counters seven_two_wins of *)
(* a player and session_seven_two_wins and session_strikes of an entry.     *)

\* the model follows a counter up to this value
MaxCounter == 1

\* the two counters of an entry; their operations differ in the column only
SessionCounters == { "session_seven_two_wins", "session_strikes" }

\* database_service.py, lines 141, 664 and 741
Increment(counter) == counter + 1

\* the counter is lowered whatever it holds
DecrementUnguarded(counter) == counter - 1

\* database_service.py, lines 168-170, 700-701 and 777-778
Decrement(counter) == IF counter > 0 THEN counter - 1 ELSE counter

\* one call of increment_seven_two_wins
IncrementSevenTwoWinsCall(player_id) ==
    /\ IF HasPlayer(player_id)
       THEN /\ players[player_id].seven_two_wins < MaxCounter
            /\ players' = [players EXCEPT
                              ![player_id].seven_two_wins = Increment(@)]
            /\ result' = [op |-> "increment_seven_two_wins", returned |-> TRUE]
       ELSE /\ players' = players
            /\ result' = [op |-> "increment_seven_two_wins", returned |-> FALSE]
    /\ UNCHANGED <<chipvars, memo, api, sessions, entries, ending,
                   admin_authenticated>>

\* database_service.py, lines 125-150
IncrementSevenTwoWins ==
    \E player_id \in PlayerIds : IncrementSevenTwoWinsCall(player_id)

\* one call of decrement_seven_two_wins
DecrementSevenTwoWinsCall(player_id) ==
    /\ IF HasPlayer(player_id)
       THEN /\ players' = [players EXCEPT
                              ![player_id].seven_two_wins = Decrement(@)]
            /\ result' = [op |-> "decrement_seven_two_wins", returned |-> TRUE]
       ELSE /\ players' = players
            /\ result' = [op |-> "decrement_seven_two_wins", returned |-> FALSE]
    /\ UNCHANGED <<chipvars, memo, api, sessions, entries, ending,
                   admin_authenticated>>

\* database_service.py, lines 152-180
DecrementSevenTwoWins ==
    \E player_id \in PlayerIds : DecrementSevenTwoWinsCall(player_id)

\* one call of increment_session_seven_two_wins or increment_session_strikes
IncrementSessionCounterCall(column, session_id, player_id) ==
    /\ LET found == FirstEntry(entries, session_id, player_id)
       IN  IF found # 0
           THEN /\ entries[found][column] < MaxCounter
                /\ entries' = [entries EXCEPT ![found][column] = Increment(@)]
                /\ result' = [op |-> "increment_" \o column, returned |-> TRUE]
           ELSE /\ entries' = entries
                /\ result' = [op |-> "increment_" \o column, returned |-> FALSE]
    /\ UNCHANGED <<chipvars, svcvars, memo, api, sessions>>

\* database_service.py, lines 643-677 and 720-754
IncrementSessionCounter ==
    \E column \in SessionCounters, session_id \in SessionIds,
       player_id \in PlayerIds :
        IncrementSessionCounterCall(column, session_id, player_id)

\* one call of decrement_session_seven_two_wins or decrement_session_strikes
DecrementSessionCounterCall(column, session_id, player_id) ==
    /\ LET found == FirstEntry(entries, session_id, player_id)
       IN  IF found # 0
           THEN /\ entries' = [entries EXCEPT ![found][column] = Decrement(@)]
                /\ result' = [op |-> "decrement_" \o column, returned |-> TRUE]
           ELSE /\ entries' = entries
                /\ result' = [op |-> "decrement_" \o column, returned |-> FALSE]
    /\ UNCHANGED <<chipvars, svcvars, memo, api, sessions>>

\* database_service.py, lines 679-718 and 756-795
DecrementSessionCounter ==
    \E column \in SessionCounters, session_id \in SessionIds,
       player_id \in PlayerIds :
        DecrementSessionCounterCall(column, session_id, player_id)

\* one session, the players seated in it, and the six operations
NextCounters ==
    \/ Len(sessions) = 0 /\ CreateSession
    \/ AddPlayerToSession
    \/ IncrementSevenTwoWins
    \/ DecrementSevenTwoWins
    \/ IncrementSessionCounter
    \/ DecrementSessionCounter

SpecCounters == InitEntries /\ [][NextCounters]_vars

-----------------------------------------------------------------------------
(* backend/app/routes/admin.py: require_admin_auth, admin_login and         *)
(* admin_logout.  The session of a caller is the one Flask keeps for that   *)
(* caller; of the wrapped endpoints the model has admin_logout, one that    *)
(* reads (admin_get_sessions) and one that writes (admin_update_session).   *)

Callers == { "a", "b" }

\* werkzeug.security.generate_password_hash, as config.py, line 89, calls it
GeneratePasswordHash(password) == <<"hash", password>>

\* every password is taken for the stored one
CheckPasswordHashAny(pwhash, password) == TRUE

\* werkzeug.security.check_password_hash, as admin.py, line 80, calls it
CheckPasswordHash(pwhash, password) == pwhash = GeneratePasswordHash(password)

\* config.py, lines 84-89
ADMIN_PASSWORD_HASH == GeneratePasswordHash("admin123")

\* admin.py, lines 70-76: no body, or a body and what it holds under
\* password; an absent password is as the empty one
LoginBodies ==
    { None } \cup
    { [is_none |-> FALSE, password |-> password] :
        password \in { "", "admin", "admin123" } }

\* every caller is let in
AdmittedAlways(caller) == TRUE

\* admin.py, line 56: session.get('admin_authenticated')
Admitted(caller) == admin_authenticated[caller]

\* admin.py, lines 44-59: the function require_admin_auth puts in the place
\* of the handler f
RequireAdminAuth(caller, f, Handler) ==
    IF ~Admitted(caller)
    THEN /\ result' = [op |-> f, returned |-> 401]
         /\ UNCHANGED <<chipvars, svcvars, memo, api, sessions, entries>>
    ELSE Handler

InitAuth ==
    /\ chip_definitions = DefaultChipDefinitions
    /\ Idle
    /\ memo = << >>
    /\ api = NoRequest
    /\ sessions = << >>
    /\ entries = << >>
    /\ result = [op |-> "none"]
    /\ players = [ player_id \in Players |-> NewPlayer ]
    /\ ending = NoEnding
    /\ admin_authenticated = [ caller \in Callers |-> FALSE ]

\* one request to admin_login; the result keeps the body that was sent
AdminLoginCall(caller, data) ==
    /\ IF data.is_none \/ data.password = ""
       THEN /\ admin_authenticated' = admin_authenticated
            /\ result' = [op |-> "admin_login", data |-> data,
                          returned |-> 400]
       ELSE IF CheckPasswordHash(ADMIN_PASSWORD_HASH, data.password)
       THEN /\ admin_authenticated' = [admin_authenticated EXCEPT ![caller] = TRUE]
            /\ result' = [op |-> "admin_login", data |-> data,
                          returned |-> 200]
       ELSE /\ admin_authenticated' = admin_authenticated
            /\ result' = [op |-> "admin_login", data |-> data,
                          returned |-> 401]
    /\ UNCHANGED <<chipvars, memo, api, sessions, entries, players, ending>>

\* admin.py, lines 62-87
AdminLogin ==
    \E caller \in Callers, data \in LoginBodies : AdminLoginCall(caller, data)

\* one request to admin_logout
AdminLogoutCall(caller) ==
    RequireAdminAuth(caller, "admin_logout",
        /\ admin_authenticated' = [admin_authenticated EXCEPT ![caller] = FALSE]
        /\ result' = [op |-> "admin_logout", returned |-> 200]
        /\ UNCHANGED <<chipvars, memo, api, sessions, entries, players, ending>>)

\* admin.py, lines 90-100
AdminLogout == \E caller \in Callers : AdminLogoutCall(caller)

\* one request to admin_get_sessions; the rows are not put in the order of
\* their dates
AdminGetSessionsCall(caller) ==
    RequireAdminAuth(caller, "admin_get_sessions",
        /\ result' = [op |-> "admin_get_sessions", returned |-> 200,
                      body |-> [ i \in 1..Len(sessions) |-> ToDict(sessions[i]) ]]
        /\ UNCHANGED <<chipvars, svcvars, memo, api, sessions, entries>>)

\* admin.py, lines 287-301
AdminGetSessions == \E caller \in Callers : AdminGetSessionsCall(caller)

\* one request to admin_update_session
AdminUpdateSessionCall(caller) ==
    RequireAdminAuth(caller, "admin_update_session", AdminUpdateSessionStatus)

\* admin.py, lines 353-398, behind line 354
AdminUpdateSessionGated == \E caller \in Callers : AdminUpdateSessionCall(caller)

\* the sessions are created by the service; two callers log in and out and
\* ask the wrapped endpoints
NextAuth ==
    \/ CreateSession
    \/ AdminLogin
    \/ AdminLogout
    \/ AdminGetSessions
    \/ AdminUpdateSessionGated

SpecAuth == InitAuth /\ [][NextAuth]_vars

-----------------------------------------------------------------------------
(* Claims *)

\* C1: for every total_buy_in > 0 the returned mapping is worth exactly
\* round(total_buy_in * 100) cents, the remainder pass ending with
\* remaining_cents = 0.
C1_ExactReconstruction ==
    (pc = "done" /\ total_buy_in > 0) =>
        /\ ~ret.is_none
        /\ DistributionValue(ret.dict, chip_definitions) = total_cents
        /\ remaining_cents = 0

\* C2: whenever the remainder pass ends with remaining_cents different from 0
\* the call ends in an error outcome and returns no distribution.
C2_NoSilentLoss ==
    (GreedyPassEnded /\ remaining_cents # 0) => ret.is_none

\* C3: for every total_buy_in <= 0 the call ends with the validation error and
\* returns no distribution; nothing is computed from the amount (no clamping,
\* no partial result).
C3_Rejection ==
    total_buy_in <= 0 =>
        /\ pc \in {"check_amount", "done"}
        /\ ret = None
        /\ chip_distribution = NoDict
        /\ total_cents = Unassigned
        /\ pc = "done" => printed = InvalidAmountMessage

C3_Witness ==
    /\ pc = "done"
    /\ total_buy_in = 0 - 5000
    /\ ret = None
    /\ printed = InvalidAmountMessage

\* C4 as stated: with the default table one weighted set is worth 3360 cents.
C4_SetValue3360 ==
    (pc \in {"check_set", "base", "greedy"} \/ ReturnedDict) =>
        value_of_weighted_set = 3360

\* C4 amended: with the default table one weighted set is worth 2000 cents.
C4_SetValue2000 ==
    (pc \in {"check_set", "base", "greedy"} \/ ReturnedDict) =>
        value_of_weighted_set = 2000

C4_Witness ==
    /\ pc = "check_set"
    /\ chip_definitions = DefaultChipDefinitions
    /\ value_of_weighted_set = 2000

\* C5 as stated: 20.00 fits 0 full sets and returns Black 20 and nothing else,
\* 20 chips worth 2000 cents.
C5_TwentyDollarsAllBlack ==
    (pc = "done" /\ total_buy_in = 20000) =>
        /\ num_sets = 0
        /\ ret = Dict(Counts(20, 0, 0, 0, 0))
        /\ TotalChips(ret.dict) = 20
        /\ DistributionValue(ret.dict, chip_definitions) = 2000

\* C5 amended: 20.00 fits exactly 1 full set and returns the weights of one
\* set, Black 10, Blue 10, Green 13, Red 14, White 20: 67 chips worth 2000 cents.
C5_TwentyDollarsOneSet ==
    (pc = "done" /\ total_buy_in = 20000) =>
        /\ num_sets = 1
        /\ ret = Dict(Counts(10, 10, 13, 14, 20))
        /\ TotalChips(ret.dict) = 67
        /\ DistributionValue(ret.dict, chip_definitions) = 2000

C5_Witness ==
    /\ pc = "done"
    /\ total_buy_in = 20000
    /\ ~ret.is_none
    /\ ret.dict["Black"] = 10

\* C6 as stated: for every k >= 1 the amount k * 33.60 returns k times the
\* weights, the remainder pass adding no chip.
C6_MultiplesOf3360 ==
    \A k \in 1..MaxSets :
        (pc \in {"greedy", "done"} /\ total_buy_in = k * 33600) =>
            /\ chip_distribution = Counts(10 * k, 10 * k, 13 * k, 14 * k, 20 * k)
            /\ pc = "done" => ret = Dict(chip_distribution)

\* C6 amended: for every k >= 1 the amount k * 20.00 returns k times the
\* weights, the remainder pass adding no chip: the distribution is k times the
\* weights when the pass starts, at each of its steps and when it is returned.
C6_MultiplesOf2000 ==
    \A k \in 1..MaxSets :
        (pc \in {"greedy", "done"} /\ total_buy_in = k * 20000) =>
            /\ chip_distribution = Counts(10 * k, 10 * k, 13 * k, 14 * k, 20 * k)
            /\ remaining_cents = 0
            /\ pc = "done" => ret = Dict(chip_distribution)

C6_Witness ==
    /\ pc = "done"
    /\ total_buy_in = MaxSets * 20000
    /\ ret = Dict(Counts(10 * MaxSets, 10 * MaxSets, 13 * MaxSets,
                         14 * MaxSets, 20 * MaxSets))

\* C7 as stated: 33.97 returns one weighted set plus Green +1, Red +1,
\* White +1, the allocation of a remainder of 37 cents.
C7_Remainder3397 ==
    (pc = "done" /\ total_buy_in = 33970) =>
        ret = Dict(Counts(10, 10, 13 + 1, 14 + 1, 20 + 1))

\* C7 amended: the amount one set plus 0.37 is 20.37; it fits one set, leaves a
\* remainder of 37 cents and returns one weighted set plus Green +1, Red +1,
\* White +1. 33.97 fits one set, leaves a remainder of 1397 cents and returns
\* one weighted set plus Black +13, Blue +1, Green +2, Red +0, White +1.
C7_Remainder2037 ==
    /\ (pc = "done" /\ total_buy_in = 20370) =>
            /\ num_sets = 1
            /\ total_cents - num_sets * value_of_weighted_set = 37
            /\ ret = Dict(Counts(10, 10, 13 + 1, 14 + 1, 20 + 1))
    /\ (pc = "done" /\ total_buy_in = 33970) =>
            /\ num_sets = 1
            /\ total_cents - num_sets * value_of_weighted_set = 1397
            /\ ret = Dict(Counts(10 + 13, 10 + 1, 13 + 2, 14, 20 + 1))

C7_Witness ==
    /\ pc = "done"
    /\ total_buy_in = 20370
    /\ ~ret.is_none
    /\ ret.dict["Green"] = 14
    /\ ret.dict["White"] = 21

\* C8: for every total_buy_in > 0 the result is num_sets * weight[d] + extra[d]
\* with num_sets = total_cents div set_value, the remainder starting at
\* total_cents mod set_value and extra taken in the order Black, Blue, Green,
\* Red, White, each as remainder div value and then subtracted.
C8_AlgorithmConformance ==
    (pc = "done" /\ total_buy_in > 0) =>
        LET set_value == 100 * 10 + 50 * 10 + 20 * 13 + 10 * 14 + 5 * 20
            sets == total_cents \div set_value
            r0 == total_cents % set_value
            black == r0 \div 100
            r1 == r0 - black * 100
            blue == r1 \div 50
            r2 == r1 - blue * 50
            green == r2 \div 20
            r3 == r2 - green * 20
            red == r3 \div 10
            r4 == r3 - red * 10
            white == r4 \div 5
        IN  ret = Dict(Counts(sets * 10 + black, sets * 10 + blue, sets * 13 + green,
                              sets * 14 + red, sets * 20 + white))

C8_Witness ==
    /\ pc = "done"
    /\ total_buy_in = 53850
    /\ ret = Dict(Counts(2 * 10 + 13, 2 * 10 + 1, 2 * 13 + 1, 2 * 14 + 1, 2 * 20 + 1))

C10_NonNegativeCounts ==
    (pc = "done" /\ total_buy_in > 0) =>
        /\ ~ret.is_none
        /\ DOMAIN ret.dict = {"Black", "Blue", "Green", "Red", "White"}
        /\ \A name \in DOMAIN ret.dict : ret.dict[name] \in Nat

C10_Witness ==
    /\ pc = "done"
    /\ total_buy_in = 10
    /\ ~ret.is_none
    /\ \A name \in {"Black", "Blue", "Green", "Red", "White"} : ret.dict[name] = 0


\* C11: two calls with the same amount return identical mappings whatever calls
\* were made before or between them (every finished call returns what the
\* first call with its amount returned), and no call changes the table the
\* next call reads.
C11_Determinism ==
    /\ chip_definitions = DefaultChipDefinitions
    /\ pc = "done" =>
          /\ memo[total_buy_in].called
          /\ memo[total_buy_in].value = ret

\* a second call with 20.37 after a call with 33.97 has left its locals behind
C11_Witness ==
    /\ pc = "done"
    /\ total_buy_in = 20370
    /\ memo[33970].called
    /\ memo[20370].called
    /\ num_sets = 1
    /\ ret = Dict(Counts(10, 10, 14, 15, 21))

\* C12: for every total_buy_in > 0 and every denomination d the deviation
\* count[d] - num_sets * weight[d] is at least 0 and at most
\* (set_value - 1) div value_cents[d], whatever the amount.
C12_BoundedDeviation ==
    (pc = "done" /\ total_buy_in > 0) =>
        /\ ~ret.is_none
        /\ \A i \in 1..Len(chip_definitions) :
              LET def == chip_definitions[i]
                  deviation == ret.dict[def.name] - num_sets * def.weight
              IN  /\ deviation >= 0
                  /\ deviation <= (value_of_weighted_set - 1) \div ChipValueCents(def.value)

\* the deviation of Black reaches its bound, 19, above one full set
C12_Witness ==
    /\ pc = "done"
    /\ total_buy_in = 39990
    /\ num_sets = 1
    /\ ret.dict["Black"] - num_sets * 10 = 19


C13_WitnessFailed ==
    /\ api.stage = "answered"
    /\ api.buy_in = 20000
    /\ ~api.imported
    /\ api.response = ErrorResponse(500, FailedMessage)

\* GET /chip-calculator/20.0: 200 with one weighted set, 67 chips
C13_WitnessOk ==
    /\ api.stage = "answered"
    /\ api.buy_in = 20000
    /\ api.response.status = 200
    /\ api.response.chip_distribution = Counts(10, 10, 13, 14, 20)
    /\ api.response.total_chips = 67


\* C14: after create_session_api succeeds for a valid date and a buy-in in
\* (0, 10000], the stored session carries chip_distribution =
\* calculate_chip_distribution(default_buy_in_value) and total_chips equal to
\* the sum of its counts.
C14_CreatedSessionCarriesDistribution ==
    (result.op = "create_session_api" /\ result.status = 201) =>
        LET row == sessions[result.session_id]
            calculated == CalculateChipDistribution(row.default_buy_in_value)
        IN  ~IsFalsy(calculated) =>
                /\ ~row.chip_distribution.is_none
                /\ JsonLoads(row.chip_distribution) = calculated.dict
                /\ row.total_chips = Some(TotalChips(calculated.dict))

\* C15: get_session_details_api computes the distribution from the session's
\* default_buy_in_value and persists it exactly when the stored session has
\* none; when one is stored, fetching leaves chip_distribution and
\* total_chips unchanged.
C15_FetchPersistsWhenAbsent ==
    (result.op = "get_session_details_api" /\ result.status = 200) =>
        LET row == sessions[result.session_id]
            before == result.before
            calculated == CalculateChipDistribution(before.default_buy_in_value)
        IN  IF before.chip_distribution.is_none
            THEN ~IsFalsy(calculated) =>
                    /\ ~row.chip_distribution.is_none
                    /\ JsonLoads(row.chip_distribution) = calculated.dict
                    /\ row.total_chips = Some(TotalChips(calculated.dict))
            ELSE /\ row.chip_distribution = before.chip_distribution
                 /\ row.total_chips = before.total_chips


\* C16: after any sequence of record_player_entry, remove_buy_in,
\* record_payout, add_player_to_session and admin_update_entry operations
\* every stored entry satisfies profit = round_to_cents(payout -
\* total_buy_in_amount).
C16_ProfitInvariant ==
    \A i \in DOMAIN entries :
        LET difference == entries[i].payout - entries[i].total_buy_in_amount
            cents == IF difference >= 0 THEN (difference + 5) \div 10
                     ELSE 0 - (((0 - difference) + 5) \div 10)
        IN  entries[i].profit = cents * 10

\* an entry paid out 12.35 against two buy-ins of 20.00: profit -27.65
C16_Witness ==
    /\ result.op = "record_payout"
    /\ result.returned = TRUE
    /\ \E i \in DOMAIN entries :
          /\ entries[i].buy_in_count = 2
          /\ entries[i].total_buy_in_amount = 40000
          /\ entries[i].payout = 12350
          /\ entries[i].profit = 0 - 27650

C18_EndedSessionFrozen ==
    [][ \A session_id \in SessionIds, player_id \in PlayerIds :
          (HasSession(sessions, session_id) /\ ~sessions[session_id].is_active) =>
              /\ \A num_buy_ins \in NumBuyIns :
                    RecordPlayerEntryCall(session_id, player_id, num_buy_ins) =>
                        (result'.returned = None /\ entries' = entries)
              /\ RemoveBuyInCall(session_id, player_id) =>
                    (result'.returned = None /\ entries' = entries) ]_vars

\* both sessions are ended and hold an entry each; a buy-in was refused
C18_Witness ==
    /\ Len(sessions) = 2
    /\ \A session_id \in SessionIds : ~sessions[session_id].is_active
    /\ \A session_id \in SessionIds :
          \E i \in DOMAIN entries : entries[i].session_id = session_id
    /\ result = [op |-> "record_player_entry", returned |-> None]

\* C19: every stored entry has buy_in_count >= 1 after any sequence of
\* record_player_entry, remove_buy_in and add_player_to_session operations.
C19_CountAtLeastOne ==
    \A i \in DOMAIN entries : entries[i].buy_in_count >= 1

\* C20: after every record_player_entry or remove_buy_in call that returns
\* an entry, that entry's total_buy_in_amount equals round_to_cents(
\* buy_in_count * default_buy_in_value of its session), the value the session
\* has at the time of the call.
C20_TotalFromWholeCount ==
    (result.op \in {"record_player_entry", "remove_buy_in"}
     /\ ~result.returned.is_none) =>
        LET entry == result.returned.entry
            product == entry.buy_in_count
                          * sessions[entry.session_id].default_buy_in_value
        IN  /\ entry.total_buy_in_amount = ((product + 5) \div 10) * 10
            /\ \E i \in DOMAIN entries : entries[i] = entry

\* a second buy-in after the administrator lowered the buy-in value to 10.00
\* (stored from 9.995): the total is 2 x 10.00, not 20.00 + 10.00
C20_Witness ==
    /\ result.op = "record_player_entry"
    /\ ~result.returned.is_none
    /\ result.returned.entry.buy_in_count = 2
    /\ result.returned.entry.total_buy_in_amount = 20000
    /\ sessions[result.returned.entry.session_id].default_buy_in_value = 10000

-----------------------------------------------------------------------------
\* C21: after any sequence of create_session, end_session,
\* reactivate_session, update_session and admin_update_session, every session
\* has is_active true exactly when its status is ACTIVE and is_active false
\* exactly when its status is ENDED.
C21_StatusConsistency ==
    \A session_id \in 1..Len(sessions) :
        /\ sessions[session_id].is_active <=> sessions[session_id].status = "ACTIVE"
        /\ ~sessions[session_id].is_active <=> sessions[session_id].status = "ENDED"

\* the administrator has ended one session with a body whose is_active is
\* false while another session is active
C21_Witness ==
    /\ result.op = "admin_update_session"
    /\ result.returned = 200
    /\ \E s, t \in 1..Len(sessions) :
          /\ ~sessions[s].is_active
          /\ sessions[t].is_active

-----------------------------------------------------------------------------
-----------------------------------------------------------------------------
\* C23: under any sequence of the increment and decrement operations the
\* counters seven_two_wins of a player and session_seven_two_wins and
\* session_strikes of an entry never drop below 0: a decrement at 0 leaves
\* the counter unchanged and still returns True, and each increment, and each
\* decrement above 0, changes the counter by exactly 1.
C23_CountersNeverNegative ==
    /\ [](/\ \A player_id \in DOMAIN players :
                players[player_id].seven_two_wins >= 0
          /\ \A i \in 1..Len(entries), column \in SessionCounters :
                entries[i][column] >= 0)
    /\ [][/\ \A player_id \in Players :
               /\ IncrementSevenTwoWinsCall(player_id) =>
                     /\ players'[player_id].seven_two_wins =
                            players[player_id].seven_two_wins + 1
                     /\ result'.returned = TRUE
               /\ DecrementSevenTwoWinsCall(player_id) =>
                     /\ players'[player_id].seven_two_wins =
                            IF players[player_id].seven_two_wins = 0 THEN 0
                            ELSE players[player_id].seven_two_wins - 1
                     /\ result'.returned = TRUE
         /\ \A column \in SessionCounters, session_id \in SessionIds,
               player_id \in Players :
               LET found == FirstEntry(entries, session_id, player_id)
               IN  found # 0 =>
                     /\ IncrementSessionCounterCall(column, session_id, player_id) =>
                           /\ entries'[found][column] = entries[found][column] + 1
                           /\ result'.returned = TRUE
                     /\ DecrementSessionCounterCall(column, session_id, player_id) =>
                           /\ entries'[found][column] =
                                  IF entries[found][column] = 0 THEN 0
                                  ELSE entries[found][column] - 1
                           /\ result'.returned = TRUE]_vars

\* decrement_session_strikes has returned True and the counter of an entry
\* is at 0, while the other counter of that entry and the counter of a player
\* have been raised
C23_Witness ==
    /\ result = [op |-> "decrement_session_strikes", returned |-> TRUE]
    /\ \E i \in 1..Len(entries) :
          /\ entries[i].session_strikes = 0
          /\ entries[i].session_seven_two_wins = MaxCounter
    /\ \E player_id \in Players : players[player_id].seven_two_wins > 0

-----------------------------------------------------------------------------
=============================================================================
